---- MODULE Spec2Model ----
(***************************************************************************)
(* Transactions of rust-rocksdb's TransactionDB: the Rust wrappers of      *)
(* src/transaction.rs, src/ops/get.rs and src/ops/transaction.rs over the  *)
(* storage engine's pessimistic transactions (lock table, write batch,     *)
(* savepoints, snapshots), as exercised by tests/test_transaction.rs.      *)
(***************************************************************************)
EXTENDS Integers, Sequences, FiniteSets, TLC

\* ------------------------------------------------------------------ bounds
MaxTxns == 2        \* transaction handles that can be open at once
MaxCalls == 4       \* calls that may change the engine's state, in a run of Spec
MaxPairCalls == 5   \* the same, in a run of SpecPair
MaxSoloCalls == 6   \* the same, in a run of SpecSolo
MaxMergeCalls == 5  \* the same, in a run of SpecMerge
MaxViewCalls == 5   \* the same, in a run of SpecViews
MaxViews == 2       \* snapshot views that callers take and keep, in a run

Txns == 1..MaxTxns
NoTxn == 0
CFs == {"default", "cf1"}
DefaultCF == "default"
Keys == {"k1"}
Cells == CFs \X Keys
ViewIds == 1..MaxViews

\* Option<Vec<u8>>: None is the empty tuple, Some(v) the 1-tuple of v.
None == <<>>
Some(v) == <<v>>
IsSome(o) == Len(o) = 1
Unwrap(o) == o[1]

\* Result<_, Error>: err = "" is Ok(val).
Ok(v) == [err |-> "", val |-> v]
Err(kind) == [err |-> kind, val |-> None]
IsOk(r) == r.err = ""

VARIABLES db, txState, wb, sp, locks, snap, last, left, begun, views

vars == <<db, txState, wb, sp, locks, snap, last, left, begun, views>>

\* db: the committed store; txState, wb, sp, snap: each transaction's engine
\* state, write batch, savepoint stack and bound snapshot; locks: the lock
\* table; last: the call most recently made and what it returned; left: the
\* calls left in the run; begun: history, the store as it was when each open
\* transaction began; views: the snapshot views callers took and kept, each
\* with its owner, the engine snapshot it reads at, whether the caller still
\* holds it, and (history) how many times it was released.

\* The call most recently made and what it returned to the caller.
Call(op, t, c, res) == [op |-> op, t |-> t, c |-> c, res |-> res]
NoCell == <<"", "">>

\* A snapshot view slot no caller has used yet.
NoView == [owner |-> NoTxn, inner |-> None, held |-> "unused", freed |-> 0]

\* A call that may change the engine's state is counted against the run's
\* budget; a read is not.
Counted == left > 0 /\ left' = left - 1

\* ------------------------------------------------------ storage engine
\* ReadOptions: the only option the wrappers set is the snapshot to read at.
DefaultReadOptions == [snapshot |-> None]

\* A merge operator that puts the operand in front of the existing value.
concat_merge_reversed(existing_val, operand) ==
    IF IsSome(existing_val) THEN Some(operand \o Unwrap(existing_val))
    ELSE Some(operand)

\* tests/test_transaction.rs concat_merge: the existing value followed by the
\* operands, in order.
concat_merge(existing_val, operand) ==
    IF IsSome(existing_val) THEN Some(Unwrap(existing_val) \o operand)
    ELSE Some(operand)

\* One entry of a write batch, applied to the current value of its cell.
ApplyEntry(cur, e) ==
    CASE e.op = "put" -> Some(e.v)
      [] e.op = "delete" -> None
      [] e.op = "merge" -> concat_merge(cur, e.v)

\* The value of cell c after the entries of batch are applied, in issue
\* order, on top of base.
RECURSIVE ApplyBatch(_, _, _)
ApplyBatch(batch, c, base) ==
    IF batch = <<>> THEN base
    ELSE LET e == Head(batch) IN
         ApplyBatch(Tail(batch), c, IF e.c = c THEN ApplyEntry(base, e) ELSE base)

Touches(batch, c) == \E i \in 1..Len(batch) : batch[i].c = c

LastEntry(batch, c) ==
    batch[CHOOSE i \in 1..Len(batch) :
            /\ batch[i].c = c
            /\ \A j \in (i + 1)..Len(batch) : batch[j].c # c]

\* The cells on which transaction t holds a lock in lock table lk.
HeldBy(lk, t) == {c \in Cells : t \in lk[c].holders}

Unlocked == [holders |-> {}, exclusive |-> FALSE]

\* A lock table that grants an exclusive lock over the shared locks of others.
TryLock_over_shared(lk, t, c, exclusive) ==
    IF lk[c].holders \ {t} = {} \/ ~lk[c].exclusive
    THEN [locks |-> [lk EXCEPT ![c] = [holders |-> lk[c].holders \cup {t},
                                       exclusive |-> lk[c].exclusive \/ exclusive]],
          granted |-> TRUE]
    ELSE [locks |-> lk, granted |-> FALSE]

\* Lock table: a request by t for cell c. A lock is granted when nobody else
\* holds the cell, or when both the held and the requested lock are shared;
\* the owner may re-acquire and upgrade. Otherwise the request is refused at
\* once and the table is left as it was.
TryLock(lk, t, c, exclusive) ==
    LET cur == lk[c]
        others == cur.holders \ {t}
    IN  IF others = {}
        THEN [locks |-> [lk EXCEPT ![c] = [holders |-> {t},
                                           exclusive |-> cur.exclusive \/ exclusive]],
              granted |-> TRUE]
        ELSE IF ~cur.exclusive /\ ~exclusive
        THEN [locks |-> [lk EXCEPT ![c].holders = cur.holders \cup {t}],
              granted |-> TRUE]
        ELSE [locks |-> lk, granted |-> FALSE]

\* Every lock of t released.
ReleaseAll(lk, t) ==
    [c \in Cells |->
        IF lk[c].holders \ {t} = {} THEN Unlocked
        ELSE [lk[c] EXCEPT !.holders = lk[c].holders \ {t}]]

\* The locks of t released, but for those on the cells of keep.
ReleaseExcept(lk, t, keep) ==
    [c \in Cells |->
        IF c \in keep \/ t \notin lk[c].holders THEN lk[c]
        ELSE IF lk[c].holders = {t} THEN Unlocked
        ELSE [lk[c] EXCEPT !.holders = lk[c].holders \ {t}]]

\* rocksdb_transaction_get / _get_cf: the transaction's own write batch
\* shadows the store; a pending merge operand cannot be read through the
\* transaction (test_transaction_merge); otherwise the store as of the
\* snapshot of the read options, or the latest committed store.
rocksdb_transaction_get_cf(t, c, readopts) ==
    IF txState[t] # "active" THEN Err("InvalidState")
    ELSE IF Touches(wb[t], c)
    THEN LET e == LastEntry(wb[t], c) IN
         CASE e.op = "put" -> Ok(Some(e.v))
           [] e.op = "delete" -> Ok(None)
           [] e.op = "merge" -> Err("MergeInProgress")
    ELSE IF IsSome(readopts.snapshot) THEN Ok(Unwrap(readopts.snapshot)[c])
    ELSE Ok(db[c])

\* rocksdb_transaction_get_for_update / _cf: lock, then read.
rocksdb_transaction_get_for_update_cf(t, c, readopts, exclusive) ==
    IF txState[t] # "active" THEN [locks |-> locks, res |-> Err("InvalidState")]
    ELSE LET l == TryLock(locks, t, c, exclusive) IN
         IF ~l.granted THEN [locks |-> locks, res |-> Err("Conflict")]
         ELSE [locks |-> l.locks, res |-> rocksdb_transaction_get_cf(t, c, readopts)]

\* An engine whose put, delete and merge buffer the entry without locking the
\* key.
rocksdb_transaction_write_unlocked(t, entry) ==
    IF txState[t] # "active"
    THEN [locks |-> locks, res |-> Err("InvalidState"), batch |-> wb[t]]
    ELSE [locks |-> locks, res |-> Ok(None), batch |-> Append(wb[t], entry)]

\* rocksdb_transaction_put / _delete / _merge (and their _cf forms): the key
\* is locked exclusively, then the entry is appended to the write batch.
rocksdb_transaction_write(t, entry) ==
    IF txState[t] # "active"
    THEN [locks |-> locks, res |-> Err("InvalidState"), batch |-> wb[t]]
    ELSE LET l == TryLock(locks, t, entry.c, TRUE) IN
         IF ~l.granted
         THEN [locks |-> locks, res |-> Err("Conflict"), batch |-> wb[t]]
         ELSE [locks |-> l.locks, res |-> Ok(None), batch |-> Append(wb[t], entry)]

\* The store after the whole write batch of t is applied to it.
CommitStore(t) == [c \in Cells |-> ApplyBatch(wb[t], c, db[c])]

\* What is left of transaction t once it has ended in state: no write batch,
\* no savepoint, no snapshot, no lock.
Ended(t, res, store, state) ==
    [db |-> store, locks |-> ReleaseAll(locks, t), res |-> res, snapshot |-> None,
     batch |-> <<>>, state |-> state, saves |-> <<>>]

\* A call refused because t is not active: nothing changes.
Refused(t) ==
    [db |-> db, locks |-> locks, res |-> Err("InvalidState"), snapshot |-> snap[t],
     batch |-> wb[t], state |-> txState[t], saves |-> sp[t]]

\* rocksdb_transaction_commit: the write batch is applied as one unit and the
\* locks are released; when the engine fails (fault) nothing is applied, and
\* the transaction is terminal either way.
rocksdb_transaction_commit(t, fault) ==
    IF txState[t] # "active" THEN Refused(t)
    ELSE IF fault THEN Ended(t, Err("IOFailure"), db, "rolledback")
    ELSE Ended(t, Ok(None), CommitStore(t), "committed")

\* rocksdb_transaction_rollback: the write batch is dropped, the locks are
\* released.
rocksdb_transaction_rollback(t) ==
    IF txState[t] # "active" THEN Refused(t)
    ELSE Ended(t, Ok(None), db, "rolledback")

\* rocksdb_transaction_destroy.
rocksdb_transaction_destroy(t) == Ended(t, Ok(None), db, "none")

\* rocksdb_transaction_rollback_to_savepoint: the newest savepoint is popped,
\* the writes issued after it are dropped and the locks taken after it are
\* released.
rocksdb_transaction_rollback_to_savepoint(t) ==
    IF txState[t] # "active" \/ sp[t] = <<>>
    THEN [locks |-> locks, res |-> Err("InvalidState"), batch |-> wb[t], saves |-> sp[t]]
    ELSE LET s == sp[t][Len(sp[t])] IN
         [locks |-> ReleaseExcept(locks, t, s.held),
          res |-> Ok(None),
          batch |-> SubSeq(wb[t], 1, s.n),
          saves |-> SubSeq(sp[t], 1, Len(sp[t]) - 1)]

\* rocksdb_transaction_set_savepoint: the savepoint marks the end of the write
\* batch and the locks held; seen keeps what t read of each cell when the
\* savepoint was set (history, read by the savepoint law alone).
rocksdb_transaction_set_savepoint(t) ==
    IF txState[t] # "active" THEN sp[t]
    ELSE Append(sp[t], [held |-> HeldBy(locks, t), n |-> Len(wb[t]),
                        seen |-> [c \in Cells |->
                                    rocksdb_transaction_get_cf(t, c, DefaultReadOptions)]])

\* rocksdb_transactiondb_put / _put_cf: a write outside any transaction is
\* refused while a transaction holds a lock on the key.
rocksdb_transactiondb_put_cf(c, value) ==
    IF locks[c].holders # {} THEN [db |-> db, res |-> Err("Conflict")]
    ELSE [db |-> [db EXCEPT ![c] = Some(value)], res |-> Ok(None)]

\* rocksdb_transactiondb_get / _get_cf.
rocksdb_transactiondb_get_cf(c, readopts) ==
    IF IsSome(readopts.snapshot) THEN Unwrap(readopts.snapshot)[c] ELSE db[c]

\* rocksdb_transaction_get_snapshot: the snapshot bound to t at begin, if any.
rocksdb_transaction_get_snapshot(t) == snap[t]

\* ------------------------------------------------------------- wrappers
DefaultWriteOptions == [sync |-> FALSE]
DefaultTransactionOptions == [set_snapshot |-> FALSE]

\* The state of transaction t replaced by what an engine call left of it.
Becomes(t, r) ==
    /\ db' = r.db
    /\ txState' = [txState EXCEPT ![t] = r.state]
    /\ wb' = [wb EXCEPT ![t] = r.batch]
    /\ sp' = [sp EXCEPT ![t] = r.saves]
    /\ snap' = [snap EXCEPT ![t] = r.snapshot]
    /\ locks' = r.locks
    /\ begun' = [begun EXCEPT ![t] = IF r.state = "active" THEN begun[t] ELSE None]
    /\ UNCHANGED views

\* TransactionDB::transaction_opt: rocksdb_transaction_begin, with a snapshot
\* taken at once when the options ask for one.
transaction_opt(t, writeopts, txopts) ==
    /\ txState[t] = "none"
    /\ \A u \in Txns : u < t => txState[u] # "none"
    /\ Counted
    /\ txState' = [txState EXCEPT ![t] = "active"]
    /\ snap' = [snap EXCEPT ![t] = IF txopts.set_snapshot THEN Some(db) ELSE None]
    /\ begun' = [begun EXCEPT ![t] = Some(db)]
    /\ last' = Call("transaction", t, NoCell, Ok(None))
    /\ UNCHANGED <<db, wb, sp, locks, views>>

\* TransactionBegin::transaction.
transaction(t) == transaction_opt(t, DefaultWriteOptions, DefaultTransactionOptions)

\* Transaction::commit reporting a conflict on a transaction that took no
\* part in one.
commit_conflicting(t) ==
    /\ txState[t] # "none"
    /\ Counted
    /\ LET r == Ended(t, Err("Conflict"), db, "rolledback") IN
         /\ Becomes(t, r)
         /\ last' = Call("commit", t, NoCell, r.res)

\* Transaction::commit calling the engine's rollback in place of its commit.
commit_as_rollback(t) ==
    /\ txState[t] # "none"
    /\ Counted
    /\ LET r == rocksdb_transaction_rollback(t) IN
         /\ Becomes(t, r)
         /\ last' = Call("commit", t, NoCell, r.res)

\* Transaction::commit.
commit(t) ==
    /\ txState[t] # "none"
    /\ Counted
    /\ \E fault \in BOOLEAN :
         LET r == rocksdb_transaction_commit(t, fault) IN
         /\ Becomes(t, r)
         /\ last' = Call("commit", t, NoCell, r.res)

\* Transaction::rollback returning Ok without calling the engine.
rollback_skipped(t) ==
    /\ txState[t] # "none"
    /\ Counted
    /\ last' = Call("rollback", t, NoCell, Ok(None))
    /\ UNCHANGED <<db, txState, wb, sp, locks, snap, begun, views>>

\* Transaction::rollback calling the engine's commit in place of its rollback.
rollback_as_commit(t) ==
    /\ txState[t] # "none"
    /\ Counted
    /\ LET r == rocksdb_transaction_commit(t, FALSE) IN
         /\ Becomes(t, r)
         /\ last' = Call("rollback", t, NoCell, r.res)

\* Transaction::rollback.
rollback(t) ==
    /\ txState[t] # "none"
    /\ Counted
    /\ LET r == rocksdb_transaction_rollback(t) IN
         /\ Becomes(t, r)
         /\ last' = Call("rollback", t, NoCell, r.res)

\* Transaction::rollback_to_savepoint going back to the oldest savepoint:
\* every savepoint is removed and every write after the oldest dropped.
rollback_to_savepoint_first(t) ==
    /\ txState[t] # "none"
    /\ Counted
    /\ LET r == rocksdb_transaction_rollback_to_savepoint(t) IN
         /\ wb' = [wb EXCEPT ![t] = IF IsOk(r.res) THEN SubSeq(wb[t], 1, sp[t][1].n)
                                    ELSE r.batch]
         /\ sp' = [sp EXCEPT ![t] = <<>>]
         /\ locks' = r.locks
         /\ last' = Call("rollback_to_savepoint", t, NoCell, r.res)
    /\ UNCHANGED <<db, txState, snap, begun, views>>

\* Transaction::rollback_to_savepoint releasing every lock of the
\* transaction, those taken before the savepoint included.
rollback_to_savepoint_unlocking(t) ==
    /\ txState[t] # "none"
    /\ Counted
    /\ LET r == rocksdb_transaction_rollback_to_savepoint(t) IN
         /\ wb' = [wb EXCEPT ![t] = r.batch]
         /\ sp' = [sp EXCEPT ![t] = r.saves]
         /\ locks' = IF IsOk(r.res) THEN ReleaseAll(locks, t) ELSE r.locks
         /\ last' = Call("rollback_to_savepoint", t, NoCell, r.res)
    /\ UNCHANGED <<db, txState, snap, begun, views>>

\* Transaction::rollback_to_savepoint without ffi_try!: the engine's error is
\* dropped and Ok returned.
rollback_to_savepoint_unchecked(t) ==
    /\ txState[t] # "none"
    /\ Counted
    /\ LET r == rocksdb_transaction_rollback_to_savepoint(t) IN
         /\ wb' = [wb EXCEPT ![t] = r.batch]
         /\ sp' = [sp EXCEPT ![t] = r.saves]
         /\ locks' = r.locks
         /\ last' = Call("rollback_to_savepoint", t, NoCell, Ok(None))
    /\ UNCHANGED <<db, txState, snap, begun, views>>

\* Transaction::rollback_to_savepoint that pops the savepoint and leaves the
\* write batch and the locks as they are.
rollback_to_savepoint_kept(t) ==
    /\ txState[t] # "none"
    /\ Counted
    /\ LET r == rocksdb_transaction_rollback_to_savepoint(t) IN
         /\ sp' = [sp EXCEPT ![t] = r.saves]
         /\ last' = Call("rollback_to_savepoint", t, NoCell, r.res)
    /\ UNCHANGED <<db, txState, wb, locks, snap, begun, views>>

\* Transaction::rollback_to_savepoint.
rollback_to_savepoint(t) ==
    /\ txState[t] # "none"
    /\ Counted
    /\ LET r == rocksdb_transaction_rollback_to_savepoint(t) IN
         /\ wb' = [wb EXCEPT ![t] = r.batch]
         /\ sp' = [sp EXCEPT ![t] = r.saves]
         /\ locks' = r.locks
         /\ last' = Call("rollback_to_savepoint", t, NoCell, r.res)
    /\ UNCHANGED <<db, txState, snap, begun, views>>

\* Transaction::set_savepoint: returns nothing.
set_savepoint(t) ==
    /\ txState[t] # "none"
    /\ Counted
    /\ sp' = [sp EXCEPT ![t] = rocksdb_transaction_set_savepoint(t)]
    /\ last' = Call("set_savepoint", t, NoCell, Ok(None))
    /\ UNCHANGED <<db, txState, wb, locks, snap, begun, views>>

\* Transaction::get_for_update_cf_opt passing the default column family's
\* handle: the lock and the read are of the key in the default column family.
get_for_update_cf_opt_default(t, cf, key, readopts, exclusive) ==
    /\ txState[t] # "none"
    /\ Counted
    /\ LET r == rocksdb_transaction_get_for_update_cf(t, <<DefaultCF, key>>, readopts, exclusive) IN
         /\ locks' = r.locks
         /\ last' = Call("get_for_update", t, <<cf, key>>, r.res)
    /\ UNCHANGED <<db, txState, wb, sp, snap, begun, views>>

\* Transaction::get_for_update_cf_opt that drops its exclusive argument and
\* always asks the engine for an exclusive lock.
get_for_update_cf_opt_exclusive(t, cf, key, readopts, exclusive) ==
    /\ txState[t] # "none"
    /\ Counted
    /\ LET r == rocksdb_transaction_get_for_update_cf(t, <<cf, key>>, readopts, TRUE) IN
         /\ locks' = r.locks
         /\ last' = Call("get_for_update", t, <<cf, key>>, r.res)
    /\ UNCHANGED <<db, txState, wb, sp, snap, begun, views>>

\* Transaction::get_for_update_cf_opt over an engine that waits for the lock:
\* the call returns only once the lock can be granted.
get_for_update_cf_opt_waiting(t, cf, key, readopts, exclusive) ==
    /\ txState[t] # "none"
    /\ Counted
    /\ txState[t] = "active" => TryLock(locks, t, <<cf, key>>, exclusive).granted
    /\ LET r == rocksdb_transaction_get_for_update_cf(t, <<cf, key>>, readopts, exclusive) IN
         /\ locks' = r.locks
         /\ last' = Call("get_for_update", t, <<cf, key>>, r.res)
    /\ UNCHANGED <<db, txState, wb, sp, snap, begun, views>>

\* Transaction::get_for_update_cf_opt without ffi_try!: the engine's error is
\* dropped and the null value read as an absent key.
get_for_update_cf_opt_unchecked(t, cf, key, readopts, exclusive) ==
    /\ txState[t] # "none"
    /\ Counted
    /\ LET r == rocksdb_transaction_get_for_update_cf(t, <<cf, key>>, readopts, exclusive) IN
         /\ locks' = r.locks
         /\ last' = Call("get_for_update", t, <<cf, key>>,
                         IF IsOk(r.res) THEN r.res ELSE Ok(None))
    /\ UNCHANGED <<db, txState, wb, sp, snap, begun, views>>

\* Transaction::get_for_update_cf_opt.
get_for_update_cf_opt(t, cf, key, readopts, exclusive) ==
    /\ txState[t] # "none"
    /\ Counted
    /\ LET r == rocksdb_transaction_get_for_update_cf(t, <<cf, key>>, readopts, exclusive) IN
         /\ locks' = r.locks
         /\ last' = Call("get_for_update", t, <<cf, key>>, r.res)
    /\ UNCHANGED <<db, txState, wb, sp, snap, begun, views>>

\* Transaction::get_for_update_cf: default options, exclusive.
get_for_update_cf(t, cf, key) == get_for_update_cf_opt(t, cf, key, DefaultReadOptions, TRUE)

\* Transaction::get_for_update_opt that keeps the lock only where a value
\* was found.
get_for_update_opt_found(t, key, readopts, exclusive) ==
    /\ txState[t] # "none"
    /\ Counted
    /\ LET r == rocksdb_transaction_get_for_update_cf(t, <<DefaultCF, key>>, readopts, exclusive) IN
         /\ locks' = IF r.res = Ok(None) THEN locks ELSE r.locks
         /\ last' = Call("get_for_update", t, <<DefaultCF, key>>, r.res)
    /\ UNCHANGED <<db, txState, wb, sp, snap, begun, views>>

\* Transaction::get_for_update_opt that asks again for a shared lock when the
\* engine refuses the lock, and returns the first error.
get_for_update_opt_fallback(t, key, readopts, exclusive) ==
    /\ txState[t] # "none"
    /\ Counted
    /\ LET r == rocksdb_transaction_get_for_update_cf(t, <<DefaultCF, key>>, readopts, exclusive)
           again == rocksdb_transaction_get_for_update_cf(t, <<DefaultCF, key>>, readopts, FALSE)
       IN  /\ locks' = IF r.res = Err("Conflict") THEN again.locks ELSE r.locks
           /\ last' = Call("get_for_update", t, <<DefaultCF, key>>, r.res)
    /\ UNCHANGED <<db, txState, wb, sp, snap, begun, views>>

\* Transaction::get_for_update_opt: the default column family.
get_for_update_opt(t, key, readopts, exclusive) ==
    /\ txState[t] # "none"
    /\ Counted
    /\ LET r == rocksdb_transaction_get_for_update_cf(t, <<DefaultCF, key>>, readopts, exclusive) IN
         /\ locks' = r.locks
         /\ last' = Call("get_for_update", t, <<DefaultCF, key>>, r.res)
    /\ UNCHANGED <<db, txState, wb, sp, snap, begun, views>>

\* Transaction::get_for_update passing exclusive = false to the _opt form.
get_for_update_shared(t, key) == get_for_update_opt(t, key, DefaultReadOptions, FALSE)

\* Transaction::get_for_update: default options, exclusive.
get_for_update(t, key) == get_for_update_opt(t, key, DefaultReadOptions, TRUE)

\* Drop for Transaction that does not call rocksdb_transaction_destroy: the
\* handle is gone, what the engine holds for it stays.
drop_leaked(t) ==
    /\ txState[t] # "none"
    /\ Counted
    /\ txState' = [txState EXCEPT ![t] = "none"]
    /\ begun' = [begun EXCEPT ![t] = None]
    /\ last' = Call("drop", t, NoCell, Ok(None))
    /\ UNCHANGED <<db, wb, sp, locks, snap, views>>

\* Drop for Transaction. A snapshot view borrows the transaction it was
\* taken from (Snapshot { db: self, .. }), so the handle cannot be dropped
\* while a view of it is held.
drop(t) ==
    /\ txState[t] # "none"
    /\ \A v \in ViewIds : views[v].held = "live" => views[v].owner # t
    /\ Counted
    /\ Becomes(t, rocksdb_transaction_destroy(t))
    /\ last' = Call("drop", t, NoCell, Ok(None))

\* A read through transaction t, reported to the caller as call op.
TransactionRead(op, t, cf, key, readopts) ==
    /\ txState[t] # "none"
    /\ last' = Call(op, t, <<cf, key>>, rocksdb_transaction_get_cf(t, <<cf, key>>, readopts))
    /\ UNCHANGED <<db, txState, wb, sp, locks, snap, left, begun, views>>

\* GetCFOpt for Transaction setting the transaction's bound snapshot in the
\* read options.
Transaction_get_cf_opt_pinned(t, cf, key, readopts) ==
    TransactionRead("get", t, cf, key, [snapshot |-> rocksdb_transaction_get_snapshot(t)])

\* GetCFOpt for Transaction with the null test inverted: a value that was
\* found is returned as Ok(None).
Transaction_get_cf_opt_null(t, cf, key, readopts) ==
    /\ txState[t] # "none"
    /\ LET r == rocksdb_transaction_get_cf(t, <<cf, key>>, readopts) IN
         last' = Call("get", t, <<cf, key>>, IF IsOk(r) THEN Ok(None) ELSE r)
    /\ UNCHANGED <<db, txState, wb, sp, locks, snap, left, begun, views>>

\* GetCFOpt for Transaction.
Transaction_get_cf_opt(t, cf, key, readopts) == TransactionRead("get", t, cf, key, readopts)

\* GetOpt for Transaction setting the transaction's bound snapshot in the
\* read options.
Transaction_get_opt_pinned(t, key, readopts) ==
    TransactionRead("get", t, DefaultCF, key, [snapshot |-> rocksdb_transaction_get_snapshot(t)])

\* GetOpt for Transaction without ffi_try!: the engine's error is dropped and
\* the null value read as an absent key.
Transaction_get_opt_absent(t, key, readopts) ==
    /\ txState[t] # "none"
    /\ LET r == rocksdb_transaction_get_cf(t, <<DefaultCF, key>>, readopts) IN
         last' = Call("get", t, <<DefaultCF, key>>, IF IsOk(r) THEN r ELSE Ok(None))
    /\ UNCHANGED <<db, txState, wb, sp, locks, snap, left, begun, views>>

\* GetOpt for Transaction calling the database's get in place of the
\* transaction's: the write batch of t is not read.
Transaction_get_opt_committed(t, key, readopts) ==
    /\ txState[t] # "none"
    /\ last' = Call("get", t, <<DefaultCF, key>>,
                    Ok(rocksdb_transactiondb_get_cf(<<DefaultCF, key>>, readopts)))
    /\ UNCHANGED <<db, txState, wb, sp, locks, snap, left, begun, views>>

\* GetOpt for Transaction: the default column family.
Transaction_get_opt(t, key, readopts) == TransactionRead("get", t, DefaultCF, key, readopts)

\* impl Get for T / impl GetCF for T, on a transaction: default read options.
Transaction_get(t, key) == Transaction_get_opt(t, key, DefaultReadOptions)

Transaction_get_cf(t, cf, key) == Transaction_get_cf_opt(t, cf, key, DefaultReadOptions)

\* SnapshotInternal for Transaction handing out a view with no snapshot.
create_snapshot_unbound(t) == [db |-> t, inner |-> None]

\* SnapshotInternal for Transaction: the snapshot view of t.
create_snapshot(t) == [db |-> t, inner |-> rocksdb_transaction_get_snapshot(t)]

\* Snapshot::get_cf on the view of t.snapshot(): a read through t with the
\* snapshot set in the read options; the view is released after the read.
Snapshot_get_cf(t, cf, key) ==
    LET snapshot == create_snapshot(t) IN
    TransactionRead("snapshot_get", snapshot.db, cf, key, [snapshot |-> snapshot.inner])

\* rocksdb_transactiondb_create_snapshot: the store as it is now.
rocksdb_transactiondb_create_snapshot == Some(db)

\* rocksdb_transactiondb_release_snapshot / rocksdb_free of a snapshot
\* handle: one release of the handle of the view.
rocksdb_transactiondb_release_snapshot(view) == [view EXCEPT !.freed = @ + 1]

rocksdb_free(view) == [view EXCEPT !.freed = @ + 1]

\* SnapshotInternal for TransactionDB: create_snapshot, release_snapshot.
TransactionDB_create_snapshot == [db |-> NoTxn, inner |-> rocksdb_transactiondb_create_snapshot]

TransactionDB_release_snapshot(snapshot) == rocksdb_transactiondb_release_snapshot(snapshot)

\* SnapshotInternal for Transaction releasing nothing: the handle is leaked.
release_snapshot_leaked(t, snapshot) == snapshot

\* SnapshotInternal for Transaction: release_snapshot.
release_snapshot(t, snapshot) == rocksdb_free(snapshot)

\* The slot a view taken now is kept in: the first unused one.
NewView(v) ==
    /\ views[v].held = "unused"
    /\ \A w \in ViewIds : w < v => views[w].held # "unused"

\* The view kept in slot v, as the caller got it from create_snapshot.
Taken(v, snapshot) ==
    views' = [views EXCEPT ![v] = [owner |-> snapshot.db, inner |-> snapshot.inner,
                                   held |-> "live", freed |-> 0]]

\* t.snapshot(), the view kept by the caller.
Transaction_snapshot(t, v) ==
    /\ txState[t] # "none"
    /\ NewView(v)
    /\ Counted
    /\ Taken(v, create_snapshot(t))
    /\ last' = Call("snapshot", t, NoCell, Ok(None))
    /\ UNCHANGED <<db, txState, wb, sp, locks, snap, begun>>

\* db.snapshot(), the view kept by the caller.
TransactionDB_snapshot(v) ==
    /\ NewView(v)
    /\ Counted
    /\ Taken(v, TransactionDB_create_snapshot)
    /\ last' = Call("snapshot", NoTxn, NoCell, Ok(None))
    /\ UNCHANGED <<db, txState, wb, sp, locks, snap, begun>>

\* Drop for Snapshot: a view the caller holds goes out of scope and its
\* owner's release_snapshot is called on it.
Snapshot_drop(v) ==
    /\ views[v].held = "live"
    /\ Counted
    /\ LET released == IF views[v].owner = NoTxn
                       THEN TransactionDB_release_snapshot(views[v])
                       ELSE release_snapshot(views[v].owner, views[v])
       IN  views' = [views EXCEPT ![v] = [released EXCEPT !.held = "dropped"]]
    /\ last' = Call("snapshot_drop", views[v].owner, NoCell, Ok(None))
    /\ UNCHANGED <<db, txState, wb, sp, locks, snap, begun>>

\* Snapshot::get_cf on a view the caller holds: a read through its owner with
\* the view's snapshot set in the read options.
Snapshot_view_get_cf(v, cf, key) ==
    /\ views[v].held = "live"
    /\ IF views[v].owner = NoTxn
       THEN /\ last' = Call("snapshot_get", NoTxn, <<cf, key>>,
                            Ok(rocksdb_transactiondb_get_cf(<<cf, key>>,
                                                            [snapshot |-> views[v].inner])))
            /\ UNCHANGED <<db, txState, wb, sp, locks, snap, left, begun, views>>
       ELSE TransactionRead("snapshot_get", views[v].owner, cf, key,
                            [snapshot |-> views[v].inner])

\* GetCFOpt / GetOpt for TransactionDB: a read of the committed store.
TransactionDB_get_cf_opt(cf, key, readopts) ==
    /\ last' = Call("db_get", NoTxn, <<cf, key>>, Ok(rocksdb_transactiondb_get_cf(<<cf, key>>, readopts)))
    /\ UNCHANGED <<db, txState, wb, sp, locks, snap, left, begun, views>>

TransactionDB_get_opt(key, readopts) ==
    /\ last' = Call("db_get", NoTxn, <<DefaultCF, key>>,
                    Ok(rocksdb_transactiondb_get_cf(<<DefaultCF, key>>, readopts)))
    /\ UNCHANGED <<db, txState, wb, sp, locks, snap, left, begun, views>>

\* PutCF for TransactionDB: a write outside any transaction.
TransactionDB_put_cf(cf, key, value) ==
    /\ Counted
    /\ LET r == rocksdb_transactiondb_put_cf(<<cf, key>>, value) IN
         /\ db' = r.db
         /\ last' = Call("db_put", NoTxn, <<cf, key>>, r.res)
    /\ UNCHANGED <<txState, wb, sp, locks, snap, begun, views>>

\* A write through transaction t, reported to the caller as call op.
TransactionWrite(op, t, entry) ==
    /\ txState[t] # "none"
    /\ Counted
    /\ LET r == rocksdb_transaction_write(t, entry) IN
         /\ wb' = [wb EXCEPT ![t] = r.batch]
         /\ locks' = r.locks
         /\ last' = Call(op, t, entry.c, r.res)
    /\ UNCHANGED <<db, txState, sp, snap, begun, views>>

\* PutCF / DeleteCF / MergeCF for Transaction.
Transaction_put_cf(t, cf, key, value) ==
    TransactionWrite("put", t, [v |-> value, op |-> "put", c |-> <<cf, key>>])

Transaction_delete_cf(t, cf, key) ==
    TransactionWrite("delete", t, [v |-> <<>>, op |-> "delete", c |-> <<cf, key>>])

Transaction_merge_cf(t, cf, key, operand) ==
    TransactionWrite("merge", t, [v |-> operand, op |-> "merge", c |-> <<cf, key>>])

\* ------------------------------------------------------- specification
\* A store just opened, empty or holding earlier data on the cells of C: no
\* transaction, no lock.
InitStore(C) ==
    /\ \E v \in {None, Some(<<"a">>)} : db = [c \in Cells |-> IF c \in C THEN v ELSE None]
    /\ txState = [t \in Txns |-> "none"]
    /\ wb = [t \in Txns |-> <<>>]
    /\ sp = [t \in Txns |-> <<>>]
    /\ locks = [c \in Cells |-> Unlocked]
    /\ snap = [t \in Txns |-> None]
    /\ last = Call("open", NoTxn, NoCell, Ok(None))
    /\ begun = [t \in Txns |-> None]
    /\ views = [v \in ViewIds |-> NoView]

\* The calls clients can make with the transaction handles of T, on the cells
\* of C, writing the values of V. The forms that take no column family are
\* called on the default one, the forms that take one on the cells of F; the
\* bare get_for_update asks for an exclusive lock, the _opt forms are called
\* for a shared one.
Calls(T, C, F, V) ==
    \/ \E t \in T : transaction(t)
    \/ \E t \in T : transaction_opt(t, DefaultWriteOptions, [set_snapshot |-> TRUE])
    \/ \E t \in T : commit(t)
    \/ \E t \in T : rollback(t)
    \/ \E t \in T : set_savepoint(t)
    \/ \E t \in T : rollback_to_savepoint(t)
    \/ \E t \in T : drop(t)
    \/ \E t \in T, c \in C : c[1] = DefaultCF /\ get_for_update(t, c[2])
    \/ \E t \in T, c \in C :
         c[1] = DefaultCF /\ get_for_update_opt(t, c[2], DefaultReadOptions, FALSE)
    \/ \E t \in T, c \in F : get_for_update_cf(t, c[1], c[2])
    \/ \E t \in T, c \in F : get_for_update_cf_opt(t, c[1], c[2], DefaultReadOptions, FALSE)
    \/ \E t \in T, c \in C : c[1] = DefaultCF /\ Transaction_get(t, c[2])
    \/ \E t \in T, c \in F : Transaction_get_cf(t, c[1], c[2])
    \/ \E t \in T, c \in C : Snapshot_get_cf(t, c[1], c[2])
    \/ \E t \in T, c \in C, value \in V : Transaction_put_cf(t, c[1], c[2], value)
    \/ \E t \in T, c \in C : Transaction_delete_cf(t, c[1], c[2])
    \/ \E t \in T, c \in C, operand \in V : Transaction_merge_cf(t, c[1], c[2], operand)
    \/ \E c \in C : c[1] = DefaultCF /\ TransactionDB_get_opt(c[2], DefaultReadOptions)
    \/ \E c \in F : TransactionDB_get_cf_opt(c[1], c[2], DefaultReadOptions)
    \/ \E c \in C, value \in V : TransactionDB_put_cf(c[1], c[2], value)

\* Concurrent transactions on every cell.
Init == InitStore(Cells) /\ left = MaxCalls

Next == Calls(Txns, Cells, {c \in Cells : c[1] # DefaultCF}, {<<"b">>})

Spec == Init /\ [][Next]_vars

\* Concurrent transactions contending for one key, in longer runs.
PairCells == {<<DefaultCF, "k1">>}

InitPair == InitStore(PairCells) /\ left = MaxPairCalls

NextPair == Calls(Txns, PairCells, PairCells, {<<"b">>})

SpecPair == InitPair /\ [][NextPair]_vars

\* One transaction at a time, in longer runs.
SoloCells == {<<DefaultCF, "k1">>}

InitSolo == InitStore(SoloCells) /\ left = MaxSoloCalls

NextSolo == Calls({1}, SoloCells, SoloCells, {<<"b">>})

SpecSolo == InitSolo /\ [][NextSolo]_vars

\* One transaction at a time on one cell, with two values to tell the order
\* of merge operands.
MergeValues == {<<"b">>, <<"c">>}

InitMerge == InitStore(SoloCells) /\ left = MaxMergeCalls

NextMerge == Calls({1}, SoloCells, SoloCells, MergeValues)

SpecMerge == InitMerge /\ [][NextMerge]_vars

\* One transaction handle, one cell, and snapshot views of the database and
\* of the transaction that the caller takes, keeps, reads through and drops.
InitViews == InitStore(SoloCells) /\ left = MaxViewCalls

ViewCalls(T, C) ==
    \/ \E t \in T, v \in ViewIds : Transaction_snapshot(t, v)
    \/ \E v \in ViewIds : TransactionDB_snapshot(v)
    \/ \E v \in ViewIds : Snapshot_drop(v)
    \/ \E v \in ViewIds, c \in C : Snapshot_view_get_cf(v, c[1], c[2])

NextViews == Calls({1}, SoloCells, SoloCells, {<<"b">>}) \/ ViewCalls({1}, SoloCells)

SpecViews == InitViews /\ [][NextViews]_vars

\* --------------------------------------------------------------- claims
Active(t) == txState[t] = "active"

HoldsExclusive(t, c) == t \in locks[c].holders /\ locks[c].exclusive

\* The step is a call of one of ops that may change the engine's state.
Called(ops) == left' = left - 1 /\ last'.op \in ops

\* The step is a read, one of ops, made by a caller that is not t.
ReadByOther(ops, t) ==
    /\ left' = left /\ last'.op \in ops /\ last'.t # t /\ last' # last
    /\ last'.t # NoTxn => Active(last'.t)

\* C1: while transaction a holds an exclusive lock on a cell, a
\* get_for_update of that cell by another live transaction and a direct put
\* of it on the database return a Conflict error, and change neither the
\* store nor the lock table.
C1_ExclusiveLockRefusesOthers ==
    [][\A a \in Txns, c \in Cells :
          ( /\ HoldsExclusive(a, c)
            /\ Called({"get_for_update", "db_put"})
            /\ last'.c = c /\ last'.t # a
            /\ last'.t # NoTxn => Active(last'.t) )
          => /\ last'.res = Err("Conflict")
             /\ db' = db
             /\ locks' = locks]_vars

\* Transaction 2 was refused a get_for_update on a cell transaction 1 holds.
C1_Witness ==
    /\ HoldsExclusive(1, <<DefaultCF, "k1">>)
    /\ last = Call("get_for_update", 2, <<DefaultCF, "k1">>, Err("Conflict"))

\* C2: in every reachable state each (column family, key) pair has at most
\* one transaction holding an exclusive lock on it, and an exclusive holder
\* shares the pair with no other holder.
C2_OneExclusiveHolder ==
    \A c \in Cells : locks[c].exclusive => Cardinality(locks[c].holders) = 1

\* Transaction 1 asked for an exclusive lock on a cell on which transaction 2
\* holds a shared lock, and was refused.
C2_Witness ==
    /\ locks[<<"cf1", "k1">>] = [holders |-> {2}, exclusive |-> FALSE]
    /\ last = Call("get_for_update", 1, <<"cf1", "k1">>, Err("Conflict"))

\* C3: commit is atomic. The store changes only in a successful commit,
\* which installs the whole write batch at once, on every cell and column
\* family it touches and on no other, or in a direct put of one cell; a
\* commit that returns an error leaves the store as it was.
C3_CommitAtomic ==
    [][ /\ db' # db => Called({"commit", "db_put"}) /\ IsOk(last'.res)
        /\ Called({"commit"}) =>
             IF IsOk(last'.res)
             THEN \A c \in Cells : db'[c] = ApplyBatch(wb[last'.t], c, db[c])
             ELSE db' = db
        /\ Called({"db_put"}) => \A c \in Cells \ {last'.c} : db'[c] = db[c] ]_vars

\* A commit has just installed writes on both column families.
C3_Witness ==
    /\ last = Call("commit", 1, NoCell, Ok(None))
    /\ left = 0
    /\ \A c \in Cells : db[c] = Some(<<"b">>)

\* C4: while an active transaction t has a put, delete or merge on a cell
\* in its write batch, the committed value of the cell stays what it was,
\* and a get of the cell by another live transaction or on the database
\* returns that value.
C4_BufferedWriteInvisible ==
    [][\A t \in Txns, c \in Cells :
          /\ (ReadByOther({"get", "db_get"}, t) /\ last'.c = c)
             => (Active(t) /\ Touches(wb[t], c) => last'.res = Ok(db[c]))
          /\ db'[c] # db[c]
             => ~(Active(t) /\ Touches(wb[t], c) /\ txState'[t] = "active"
                  /\ Touches(wb'[t], c)) ]_vars

\* Transaction 2 read the stored value of a cell that transaction 1 has
\* deleted in its write batch.
C4_Witness ==
    /\ Active(1) /\ Touches(wb[1], <<DefaultCF, "k1">>)
    /\ LastEntry(wb[1], <<DefaultCF, "k1">>).op = "delete"
    /\ last = Call("get", 2, <<DefaultCF, "k1">>, Ok(Some(<<"a">>)))

\* What a get of cell c through transaction t returns in the current state.
TxnView(t, c) == rocksdb_transaction_get_cf(t, c, DefaultReadOptions)

\* The last call was a get of cell c through the live transaction t, which
\* has a write on c in its write batch.
ReadOwnWrite(t, c) ==
    /\ last.op = "get" /\ last.t = t /\ last.c = c
    /\ Active(t) /\ Touches(wb[t], c)

\* C5 (as stated): after a put, delete or merge on a cell succeeded in a live
\* transaction, a get of the cell through that transaction returns the value
\* its write batch makes of the cell: the value put, absent after a delete,
\* the merged value after a merge.
C5_ReadYourWrites ==
    \A t \in Txns, c \in Cells :
        ReadOwnWrite(t, c) => last.res = Ok(ApplyBatch(wb[t], c, db[c]))

\* C5 (amended): a get through the transaction returns the value put after a
\* put and absent after a delete; after a merge it returns an error, the
\* operand being applied at commit only. Whatever other transactions do.
C5_ReadYourPutsAndDeletes ==
    \A t \in Txns, c \in Cells :
        ReadOwnWrite(t, c) =>
            LET e == LastEntry(wb[t], c) IN
            CASE e.op = "put" -> last.res = Ok(Some(e.v))
              [] e.op = "delete" -> last.res = Ok(None)
              [] e.op = "merge" -> ~IsOk(last.res)

\* Transaction 1 read a cell on which it has a pending merge.
C5_Witness ==
    /\ Active(1) /\ Touches(wb[1], <<DefaultCF, "k1">>)
    /\ LastEntry(wb[1], <<DefaultCF, "k1">>).op = "merge"
    /\ last = Call("get", 1, <<DefaultCF, "k1">>, Err("MergeInProgress"))

\* C6: a successful commit of a transaction whose last write on a cell is
\* put(V) leaves V as the committed value of the cell; the committed value
\* changes in no step but a successful commit or direct put; and a get of
\* the cell through a live transaction that has no snapshot binding and no
\* write of its own on the cell, begun before or after the commit, returns
\* the committed value.
C6_CommittedPutVisible ==
    [][\A t \in Txns, c \in Cells :
          /\ ( /\ Called({"commit"}) /\ last'.t = t /\ IsOk(last'.res)
               /\ Touches(wb[t], c) /\ LastEntry(wb[t], c).op = "put" )
             => db'[c] = Some(LastEntry(wb[t], c).v)
          /\ db'[c] # db[c] => Called({"commit", "db_put"}) /\ IsOk(last'.res)
          /\ ( /\ left' = left /\ last'.op = "get" /\ last'.t = t /\ last'.c = c
               /\ Active(t) /\ ~IsSome(snap[t]) /\ ~Touches(wb[t], c) )
             => last'.res = Ok(db[c]) ]_vars

\* Transaction 1 has committed; transaction 2, live and without a snapshot,
\* read the value written.
C6_Witness ==
    /\ txState[1] = "committed" /\ Active(2) /\ ~IsSome(snap[2])
    /\ wb[2] = <<>> /\ left = 0
    /\ db[<<DefaultCF, "k1">>] = Some(<<"b">>)
    /\ last = Call("get", 2, <<DefaultCF, "k1">>, Ok(Some(<<"b">>)))

\* Transaction t has a put or a delete on cell c in its write batch.
Buffered(t, c) ==
    \E i \in 1..Len(wb[t]) : wb[t][i].c = c /\ wb[t][i].op \in {"put", "delete"}

\* The step is a successful call of op by the live transaction t.
Succeeds(op, t) ==
    Called({op}) /\ last'.t = t /\ Active(t) /\ IsOk(last'.res)

\* A get of cell c by a live transaction other than t, that has no write of
\* its own on c.
ReadElsewhere(t, c) ==
    /\ left' = left /\ last'.op = "get" /\ last'.c = c /\ last'.t # t
    /\ Active(last'.t) /\ ~Touches(wb[last'.t], c)

\* C7 (as stated): when a transaction that has buffered a put or a delete on
\* a cell rolls back, the store is unchanged and the cell holds the value it
\* had before the transaction began.
C7_RollbackRestoresBegin ==
    [][\A t \in Txns, c \in Cells :
          (Succeeds("rollback", t) /\ Buffered(t, c) /\ IsSome(begun[t]))
          => db' = db /\ db'[c] = Unwrap(begun[t])[c] ]_vars

\* C7 (amended): the committed value of a cell stays what it was from the
\* moment a transaction buffers a put or a delete on it until the transaction
\* ends otherwise than by a successful commit; the rollback changes no cell
\* of the store and empties the write batch; and a get of the cell by another
\* live transaction returns the committed value. So the value read after the
\* rollback is the one the cell had when the transaction wrote it.
C7_RollbackDiscardsWrites ==
    [][\A t \in Txns, c \in Cells :
          /\ db'[c] # db[c]
             => ~(Active(t) /\ Buffered(t, c) /\ txState'[t] # "committed")
          /\ Succeeds("rollback", t)
             => db' = db /\ wb'[t] = <<>> /\ txState'[t] = "rolledback"
          /\ ReadElsewhere(t, c) => last'.res = Ok(db[c]) ]_vars

\* Transaction 1 wrote a cell and rolled back; transaction 2 read the value
\* the cell had all along.
C7_Witness ==
    /\ txState[1] = "rolledback" /\ Active(2) /\ left = 0
    /\ locks[<<DefaultCF, "k1">>] = Unlocked
    /\ last = Call("get", 2, <<DefaultCF, "k1">>, Ok(Some(<<"a">>)))

\* The newest savepoint of transaction t.
TopSavepoint(t) == sp[t][Len(sp[t])]

\* Transaction t has put cell c since its newest savepoint.
PutSince(t, c) ==
    \E i \in (TopSavepoint(t).n + 1)..Len(wb[t]) : wb[t][i].c = c /\ wb[t][i].op = "put"

\* C8 (as stated): when a live transaction that has put a cell since its
\* newest savepoint rolls back to it, a get of the cell through the
\* transaction returns what it returned when the savepoint was set, and the
\* write batch a following commit applies is the one of that moment.
C8_SavepointLaw ==
    [][\A t \in Txns, c \in Cells :
          (Succeeds("rollback_to_savepoint", t) /\ PutSince(t, c))
          => /\ TxnView(t, c)' = TopSavepoint(t).seen[c]
             /\ wb'[t] = SubSeq(wb[t], 1, TopSavepoint(t).n) ]_vars

\* C8 (amended): the rollback to the savepoint cuts the write batch back to
\* the writes issued before the savepoint and changes no cell of the store;
\* a get of the cell through the transaction then returns what it returned
\* when the savepoint was set if the transaction had written the cell before
\* the savepoint, and the committed value of the cell otherwise; a following
\* commit applies the write batch that is left.
C8_SavepointRestoresBatch ==
    [][\A t \in Txns, c \in Cells :
          /\ (Succeeds("rollback_to_savepoint", t) /\ PutSince(t, c))
             => /\ wb'[t] = SubSeq(wb[t], 1, TopSavepoint(t).n)
                /\ db' = db
                /\ TxnView(t, c)' = IF Touches(wb'[t], c) THEN TopSavepoint(t).seen[c]
                                    ELSE Ok(db[c])
          /\ Succeeds("commit", t) => db'[c] = ApplyBatch(wb[t], c, db[c]) ]_vars

\* Transaction 1 put a value, set a savepoint, deleted and put the cell again,
\* rolled back to the savepoint and read the first value.
C8_Witness ==
    /\ Active(1) /\ sp[1] = <<>> /\ left = 0
    /\ wb[1] = <<[v |-> <<"b">>, op |-> "put", c |-> <<DefaultCF, "k1">>]>>
    /\ last = Call("get", 1, <<DefaultCF, "k1">>, Ok(Some(<<"b">>)))

\* C9: a read of a cell through the snapshot view of a live transaction
\* begun with a snapshot binding returns the value (or absence) the cell had
\* when the transaction began, for every cell the transaction has not
\* written, whatever has been committed since.
C9_SnapshotReadsPinned ==
    \A t \in Txns, c \in Cells :
        ( /\ last.op = "snapshot_get" /\ last.t = t /\ last.c = c
          /\ Active(t) /\ IsSome(snap[t]) /\ ~Touches(wb[t], c) )
        => last.res = Ok(Unwrap(begun[t])[c])

\* Transaction 1 reads through its snapshot the value a cell had before
\* transaction 2 committed another one.
C9_Witness ==
    /\ Active(1) /\ IsSome(snap[1]) /\ txState[2] = "committed"
    /\ db[<<DefaultCF, "k1">>] = Some(<<"b">>)
    /\ last = Call("snapshot_get", 1, <<DefaultCF, "k1">>, Ok(Some(<<"a">>)))

\* C10: a commit, successful or failed, and a rollback of a live transaction
\* leave it no lock, and free the cells it alone had locked; on a cell nobody
\* has locked, a direct put and a get_for_update by a live transaction
\* succeed.
C10_LocksReleasedAtEnd ==
    [][\A t \in Txns, c \in Cells :
          /\ (Called({"commit", "rollback"}) /\ last'.t = t /\ Active(t))
             => /\ txState'[t] # "active"
                /\ HeldBy(locks', t) = {}
                /\ locks[c].holders = {t} => locks'[c] = Unlocked
          /\ (locks[c] = Unlocked /\ Called({"db_put"}) /\ last'.c = c)
             => IsOk(last'.res) /\ IsSome(db'[c])
          /\ ( /\ locks[c] = Unlocked /\ Called({"get_for_update"})
               /\ last'.c = c /\ last'.t = t /\ Active(t) )
             => IsOk(last'.res) /\ t \in locks'[c].holders ]_vars

\* Transaction 1 locked a cell and ended; transaction 2 then locked it.
C10_Witness ==
    /\ txState[1] = "rolledback" /\ left = 0
    /\ locks[<<DefaultCF, "k1">>] = [holders |-> {2}, exclusive |-> TRUE]
    /\ last.op = "get_for_update" /\ last.t = 2 /\ IsOk(last.res)

\* C11: dropping a live transaction applies none of its buffered writes to
\* the store and releases every lock it held, freeing the cells it alone had
\* locked, as a rollback does; and in no state is a cell locked by a
\* transaction that is not live.
C11_DropReleases ==
    [][\A t \in Txns, c \in Cells :
          /\ (Called({"drop"}) /\ last'.t = t /\ Active(t))
             => /\ db' = db
                /\ txState'[t] = "none" /\ wb'[t] = <<>>
                /\ locks' = rocksdb_transaction_rollback(t).locks
                /\ locks[c].holders = {t} => locks'[c] = Unlocked
          /\ t \in locks'[c].holders => txState'[t] = "active" ]_vars

\* Transaction 1 was dropped; transaction 2 then wrote the cell and holds
\* its lock.
C11_Witness ==
    /\ txState[1] = "none" /\ Active(2) /\ left = 0
    /\ locks[<<DefaultCF, "k1">>] = [holders |-> {2}, exclusive |-> TRUE]
    /\ last = Call("put", 2, <<DefaultCF, "k1">>, Ok(None))

\* Transaction t has ended by a commit or a rollback and its handle is
\* still held.
Terminal(t) == txState[t] \in {"committed", "rolledback"}

\* The step is a call of one of ops on transaction t.
CallOn(ops, t) ==
    /\ last'.t = t /\ last'.op \in ops
    /\ left' = left - 1 \/ (left' = left /\ last' # last)

\* C12: every get, get_for_update, put, delete, merge, set_savepoint,
\* rollback_to_savepoint, commit and rollback on a transaction that has
\* committed or rolled back returns an InvalidState error and leaves the
\* store, the lock table and the transaction as they were.
C12_TerminalRejectsAll ==
    [][\A t \in Txns :
          ( /\ Terminal(t)
            /\ CallOn({"get", "get_for_update", "put", "delete", "merge", "set_savepoint",
                       "rollback_to_savepoint", "commit", "rollback"}, t) )
          => /\ last'.res = Err("InvalidState")
             /\ db' = db /\ locks' = locks /\ txState' = txState ]_vars

\* C13: get_for_update never waits for a lock. Whatever locks the others
\* hold, a call of it by a transaction whose handle is held can return (so
\* no two transactions are ever stuck, each in a call for a cell the other
\* holds), and the call of a live transaction has returned either holding
\* the lock or with a Conflict error, another transaction holding the cell.
C13_GetForUpdateNeverWaits ==
    /\ \A t \in Txns, c \in Cells, exclusive \in BOOLEAN :
          (txState[t] # "none" /\ left > 0)
          => ENABLED get_for_update_cf_opt(t, c[1], c[2], DefaultReadOptions, exclusive)
    /\ (last.op = "get_for_update" /\ Active(last.t))
       => IF last.res = Err("Conflict")
          THEN locks[last.c].holders \ {last.t} # {}
          ELSE last.t \in locks[last.c].holders

\* Both transactions hold a shared lock on the cell; transaction 1 asked for
\* the exclusive lock and was refused at once.
C13_Witness ==
    /\ locks[<<DefaultCF, "k1">>] = [holders |-> {1, 2}, exclusive |-> FALSE]
    /\ Active(1) /\ Active(2)
    /\ last = Call("get_for_update", 1, <<DefaultCF, "k1">>, Err("Conflict"))

\* The step is a put, delete or merge of cell c through transaction t.
WriteOn(t, c) == Called({"put", "delete", "merge"}) /\ last'.t = t /\ last'.c = c

C15_LaterWriterRefused ==
    [][\A t \in Txns, u \in Txns, c \in Cells :
          /\ ( /\ t # u /\ Active(t) /\ Active(u) /\ Touches(wb[t], c)
               /\ LastEntry(wb[t], c).op = "put"
               /\ Called({"put"}) /\ last'.t = u /\ last'.c = c )
             => /\ ~IsOk(last'.res)
                /\ wb' = wb /\ locks' = locks /\ Active(u)' /\ db' = db
          /\ (Called({"commit"}) /\ last'.t = t /\ Active(t))
             => /\ last'.res \in {Ok(None), Err("IOFailure")}
                /\ ENABLED (commit(t) /\ IsOk(last'.res))
                /\ ( /\ IsOk(last'.res) /\ Touches(wb[t], c)
                     /\ LastEntry(wb[t], c).op = "put" )
                   => db'[c] = Some(LastEntry(wb[t], c).v) ]_vars

\* Transaction 2 was refused a put on the cell transaction 1 has put and has
\* committed since; transaction 1 still holds its write and the lock.
C15_Witness ==
    /\ Active(1) /\ txState[2] = "committed" /\ left = 0
    /\ wb[1] = <<[v |-> <<"b">>, op |-> "put", c |-> <<DefaultCF, "k1">>]>>
    /\ HoldsExclusive(1, <<DefaultCF, "k1">>)
    /\ last = Call("commit", 2, NoCell, Ok(None))

\* C16: rollback_to_savepoint on a live transaction that has no savepoint
\* returns an error, and leaves its write batch, its locks, the store and the
\* transaction's state as they were.
C16_NoSavepointIsError ==
    [][\A t \in Txns :
          ( /\ Called({"rollback_to_savepoint"}) /\ last'.t = t
            /\ Active(t) /\ sp[t] = <<>> )
          => /\ ~IsOk(last'.res)
             /\ wb' = wb /\ locks' = locks /\ db' = db /\ sp' = sp
             /\ Active(t)' ]_vars

\* Transaction 1 set a savepoint, put a cell, rolled back to the savepoint
\* and put the cell again; a second rollback to a savepoint was refused and
\* the put and its lock are still there.
C16_Witness ==
    /\ Active(1) /\ sp[1] = <<>> /\ left = 0
    /\ wb[1] = <<[v |-> <<"b">>, op |-> "put", c |-> <<DefaultCF, "k1">>]>>
    /\ HoldsExclusive(1, <<DefaultCF, "k1">>)
    /\ last = Call("rollback_to_savepoint", 1, NoCell, Err("InvalidState"))

\* The step is a get_for_update of cell c by the live transaction t, which
\* holds a lock on c and has no merge pending on it.
Relock(t, c) ==
    /\ Called({"get_for_update"}) /\ last'.t = t /\ last'.c = c
    /\ Active(t) /\ t \in locks[c].holders
    /\ Touches(wb[t], c) => LastEntry(wb[t], c).op # "merge"

\* C17 (as stated): a get_for_update of a cell by a live transaction that
\* holds a lock on it succeeds with the value a get returns, and leaves the
\* lock table unchanged.
C17_RelockIdempotent ==
    [][\A t \in Txns, c \in Cells :
          Relock(t, c) => last'.res = TxnView(t, c) /\ locks' = locks ]_vars

\* C17 (amended): the get_for_update of a holder that asks for no more than
\* it holds is idempotent. When t holds the exclusive lock, every
\* get_for_update of the cell by t returns what a get returns and leaves the
\* lock table unchanged, and so does a shared request of a shared holder.
\* An exclusive request of a shared holder is an upgrade: granted, changing
\* the lock to exclusive, when t is the only holder, and refused with
\* Conflict, the table unchanged, when another transaction holds the cell
\* too. Before and after, a put, delete or merge of the cell by another live
\* transaction and a direct put of it are refused.
C17_RelockWithinHeldMode ==
    [][\A t \in Txns, c \in Cells :
          /\ Relock(t, c) =>
               IF locks[c].exclusive
               THEN last'.res = TxnView(t, c) /\ locks' = locks
               ELSE IF last'.res = Err("Conflict")
               THEN locks[c].holders # {t} /\ locks' = locks
               ELSE /\ last'.res = TxnView(t, c)
                    /\ \/ locks' = locks
                       \/ /\ locks[c].holders = {t}
                          /\ locks' = [locks EXCEPT ![c].exclusive = TRUE]
          /\ (Active(t) /\ t \in locks[c].holders /\ left > 0)
             => ENABLED ( /\ get_for_update_cf_opt(t, c[1], c[2], DefaultReadOptions, FALSE)
                          /\ locks' = locks /\ ~(last'.res = Err("Conflict")) )
          /\ ( /\ locks[c].holders \ {t} # {} /\ last'.c = c
               /\ \/ WriteOn(t, c) /\ Active(t)
                  \/ Called({"db_put"}) )
             => last'.res = Err("Conflict") /\ db' = db ]_vars

\* Transaction 1 holds the exclusive lock on the cell and has just locked it
\* again, with the stored value returned; transaction 2 is live.
C17_Witness ==
    /\ Active(1) /\ Active(2) /\ left = 0
    /\ locks[<<DefaultCF, "k1">>] = [holders |-> {1}, exclusive |-> TRUE]
    /\ wb[1] = <<>>
    /\ last = Call("get_for_update", 1, <<DefaultCF, "k1">>, Ok(Some(<<"a">>)))

\* C18: a get_for_update that returns a Conflict error changes nothing: the
\* lock table is as it was, so the holders of the cell still hold it and the
\* caller holds what it held before and nothing more; store, write batches
\* and transactions are untouched.
C18_FailedLockChangesNothing ==
    [][(Called({"get_for_update"}) /\ last'.res = Err("Conflict"))
          => /\ locks' = locks
             /\ locks[last'.c].holders \ {last'.t} # {}
             /\ HeldBy(locks', last'.t) = HeldBy(locks, last'.t)
             /\ db' = db /\ wb' = wb /\ txState' = txState ]_vars

\* Both transactions hold a shared lock on the cell; transaction 2 asked for
\* the exclusive lock, was refused, and both still hold their shared locks.
C18_Witness ==
    /\ locks[<<DefaultCF, "k1">>] = [holders |-> {1, 2}, exclusive |-> FALSE]
    /\ left = 0
    /\ last = Call("get_for_update", 2, <<DefaultCF, "k1">>, Err("Conflict"))

\* The entries of a write batch on cell c, in issue order.
OnCell(batch, c) == SelectSeq(batch, LAMBDA e : e.c = c)

\* The position of the last put or delete in the entries s, 0 if none.
LastReset(s) ==
    IF \E i \in 1..Len(s) : s[i].op # "merge"
    THEN CHOOSE i \in 1..Len(s) :
            /\ s[i].op # "merge"
            /\ \A j \in (i + 1)..Len(s) : s[j].op = "merge"
    ELSE 0

\* The operands of the entries s, one after the other.
RECURSIVE Operands(_)
Operands(s) == IF s = <<>> THEN <<>> ELSE Head(s).v \o Operands(Tail(s))

\* What the concatenating merge operator makes of cell c when the entries
\* of batch are issued on top of the stored value: the value last put (or
\* nothing after a delete, or the stored value) followed by the operands
\* merged since, in issue order.
Concatenated(batch, c, stored) ==
    LET s == OnCell(batch, c)
        k == LastReset(s)
        merged == Operands(SubSeq(s, k + 1, Len(s)))
        start == IF k = 0 THEN stored
                 ELSE IF s[k].op = "put" THEN Some(s[k].v) ELSE None
    IN  IF merged = <<>> THEN start
        ELSE IF IsSome(start) THEN Some(Unwrap(start) \o merged)
        ELSE Some(merged)

\* C19: a successful commit leaves in each cell the value last put in the
\* transaction followed by the operands merged after it, in the order they
\* were issued (for put a, merge b, merge c: a, b, c); a get of the cell in a
\* later transaction, or on the database, returns that value.
C19_MergeInIssueOrder ==
    [][\A t \in Txns, c \in Cells :
          /\ Succeeds("commit", t) => db'[c] = Concatenated(wb[t], c, db[c])
          /\ ( /\ left' = left /\ last'.c = c
               /\ \/ last'.op = "db_get"
                  \/ last'.op = "get" /\ last'.t = t /\ Active(t) /\ ~Touches(wb[t], c) )
             => last'.res = Ok(db[c]) ]_vars

\* Transaction 1 put b, merged c and then b, and committed; a read of the
\* cell returns b, c, b.
C19_Witness ==
    /\ txState[1] = "committed" /\ left = 0
    /\ last = Call("db_get", NoTxn, <<DefaultCF, "k1">>, Ok(Some(<<"b", "c", "b">>)))

\* Transaction t has merge operands pending on cell c: its last write on c
\* is a merge.
MergePending(t, c) == Touches(wb[t], c) /\ LastEntry(wb[t], c).op = "merge"

\* C20: a get of a cell through a live transaction that has merge operands
\* pending on it returns an error, neither a value nor absence; the failed
\* get changes nothing, the transaction stays live with its write batch and
\* locks, its commit can succeed, and a successful commit stores the merged
\* value.
C20_PendingMergeReadFails ==
    [][\A t \in Txns, c \in Cells :
          (Active(t) /\ MergePending(t, c))
          => /\ (left' = left /\ last'.op = "get" /\ last'.t = t /\ last'.c = c)
                => /\ ~IsOk(last'.res) /\ last'.res.val = None
                   /\ Active(t)' /\ wb' = wb /\ locks' = locks /\ db' = db
                   /\ left > 0 => ENABLED (commit(t) /\ IsOk(last'.res))
             /\ Succeeds("commit", t)
                => /\ db'[c] = Concatenated(wb[t], c, db[c])
                   /\ IsSome(db'[c]) ]_vars

\* Transaction 1 put b and merged c on the cell; its get of the cell
\* returned an error and it is still live with both writes.
C20_Witness ==
    /\ Active(1)
    /\ wb[1] = <<[v |-> <<"b">>, op |-> "put", c |-> <<DefaultCF, "k1">>],
                 [v |-> <<"c">>, op |-> "merge", c |-> <<DefaultCF, "k1">>]>>
    /\ last = Call("get", 1, <<DefaultCF, "k1">>, Err("MergeInProgress"))

\* Transaction t is live, was begun with a snapshot binding and has no write
\* of its own on cell c.
Pinned(t, c) == Active(t) /\ IsSome(snap[t]) /\ ~Touches(wb[t], c)

\* C21: for a live transaction begun with a snapshot binding and with no
\* write of its own on a cell, a plain get of the cell returns the value
\* committed now (the post-commit value, once another party committed a
\* change), while a get through its snapshot view returns the value the
\* cell had when the transaction began; both reads can be made in the same
\* state.
C21_PlainReadSeesCommit ==
    /\ \A t \in Txns, c \in Cells :
          Pinned(t, c)
          => /\ ENABLED (Transaction_get_cf(t, c[1], c[2]) /\ last'.res = Ok(db[c]))
             /\ ENABLED (Snapshot_get_cf(t, c[1], c[2]) /\ last'.res = Ok(Unwrap(snap[t])[c]))
    /\ (last.t \in Txns /\ last.op \in {"get", "snapshot_get"} /\ Pinned(last.t, last.c))
       => last.res = Ok(IF last.op = "get" THEN db[last.c] ELSE Unwrap(begun[last.t])[last.c])

\* Transaction 1 was begun with a snapshot when the cell held a; transaction
\* 2 then committed b; the plain get of transaction 1 returned b.
C21_Witness ==
    /\ Active(1) /\ IsSome(snap[1]) /\ wb[1] = <<>> /\ txState[2] = "committed"
    /\ Unwrap(snap[1])[<<DefaultCF, "k1">>] = Some(<<"a">>)
    /\ db[<<DefaultCF, "k1">>] = Some(<<"b">>)
    /\ last = Call("get", 1, <<DefaultCF, "k1">>, Ok(Some(<<"b">>)))

\* C22 as stated: a plain get through a live transaction begun with a
\* snapshot binding, of a cell it has no write of its own on, returns the
\* value the cell had when the snapshot was taken.
C22_PlainReadAtSnapshot ==
    (last.t \in Txns /\ last.op = "get" /\ Pinned(last.t, last.c))
    => last.res = Ok(Unwrap(snap[last.t])[last.c])

\* C22, corrected: such a get returns the value committed at the time of
\* the get, as a get through a transaction without snapshot binding does;
\* it is the snapshot's value exactly when the cell's committed value is
\* the one it had when the snapshot was taken.
C22_PlainReadIgnoresSnapshot ==
    [][\A t \in Txns, c \in Cells :
          ( /\ left' = left /\ last'.op = "get" /\ last'.t = t /\ last'.c = c
            /\ Active(t) /\ ~Touches(wb[t], c) )
          => /\ last'.res = Ok(db[c])
             /\ IsSome(snap[t])
                => (last'.res = Ok(Unwrap(snap[t])[c]) <=> db[c] = Unwrap(snap[t])[c]) ]_vars

\* Transaction 2 was begun with a snapshot when the cell was absent; a
\* direct put then stored b; the plain get of transaction 2 returned b.
C22_Witness ==
    /\ Active(2) /\ IsSome(snap[2]) /\ wb[2] = <<>>
    /\ Unwrap(snap[2])[<<DefaultCF, "k1">>] = None
    /\ db[<<DefaultCF, "k1">>] = Some(<<"b">>)
    /\ last = Call("get", 2, <<DefaultCF, "k1">>, Ok(Some(<<"b">>)))

\* C23: the savepoints of a live transaction are a stack. set_savepoint
\* puts one savepoint on top of those set before; rollback_to_savepoint
\* succeeds exactly when a savepoint is set, then removes the newest
\* savepoint alone and drops exactly the writes buffered after it, the
\* earlier savepoints and the writes before them staying as they were; a
\* failed one changes nothing. So with n savepoints set, n consecutive
\* calls succeed and the next one fails. Each savepoint marks a point of
\* the write batch no earlier than the savepoints below it.
C23_SavepointStack ==
    [][\A t \in Txns :
          Active(t)
          => /\ (Called({"set_savepoint"}) /\ last'.t = t)
                => /\ Len(sp'[t]) = Len(sp[t]) + 1
                   /\ SubSeq(sp'[t], 1, Len(sp[t])) = sp[t]
                   /\ sp'[t][Len(sp'[t])].n = Len(wb[t])
                   /\ wb' = wb
             /\ (Called({"rollback_to_savepoint"}) /\ last'.t = t)
                => /\ IsOk(last'.res) <=> sp[t] # <<>>
                   /\ IsOk(last'.res)
                      => /\ sp'[t] = SubSeq(sp[t], 1, Len(sp[t]) - 1)
                         /\ wb'[t] = SubSeq(wb[t], 1, TopSavepoint(t).n)
                   /\ ~IsOk(last'.res) => sp' = sp /\ wb' = wb
                   /\ Active(t)'
             /\ \A i \in 1..Len(sp[t]) :
                   /\ sp[t][i].n <= Len(wb[t])
                   /\ i > 1 => sp[t][i - 1].n <= sp[t][i].n ]_vars

\* Transaction 1 set a savepoint, put b, set a second savepoint and put b
\* again; its rollback_to_savepoint left the first savepoint and the first
\* put.
C23_Witness ==
    /\ Active(1) /\ left = 0
    /\ Len(sp[1]) = 1 /\ sp[1][1].n = 0
    /\ wb[1] = <<[v |-> <<"b">>, op |-> "put", c |-> <<DefaultCF, "k1">>]>>
    /\ last = Call("rollback_to_savepoint", 1, NoCell, Ok(None))

\* C24: a savepoint records the cells the transaction holds a lock on when
\* it is set; after a successful rollback_to_savepoint the transaction still
\* holds a lock on each of them; and while a transaction holds a lock on a
\* cell, no direct put of the cell and no put of it through another
\* transaction can succeed.
C24_EarlierLocksKept ==
    [][\A t \in Txns, c \in Cells :
          /\ (Called({"set_savepoint"}) /\ last'.t = t /\ Active(t))
             => TopSavepoint(t)'.held = {d \in Cells : t \in locks[d].holders}
          /\ (Succeeds("rollback_to_savepoint", t) /\ c \in TopSavepoint(t).held)
             => /\ t \in locks[c].holders
                /\ t \in locks'[c].holders
                /\ locks[c].exclusive => locks'[c].exclusive
          /\ (t \in locks[c].holders /\ left > 0)
             => \A v \in {<<"b">>} :
                   /\ ~ENABLED (TransactionDB_put_cf(c[1], c[2], v) /\ IsOk(last'.res))
                   /\ \A u \in Txns \ {t} :
                         ~ENABLED (Transaction_put_cf(u, c[1], c[2], v) /\ IsOk(last'.res)) ]_vars

\* Transaction 1 locked the cell with get_for_update, set a savepoint and
\* rolled back to it: it still holds the exclusive lock, and calls can
\* follow.
C24_Witness ==
    /\ Active(1) /\ sp[1] = <<>> /\ wb[1] = <<>> /\ left > 0
    /\ locks[<<DefaultCF, "k1">>] = [holders |-> {1}, exclusive |-> TRUE]
    /\ last = Call("rollback_to_savepoint", 1, NoCell, Ok(None))

\* C25: a step is a call of a default-option form exactly when it is a call
\* of the fully parameterized form with the default options written out (no
\* snapshot in the read options, an exclusive lock, no sync, no snapshot
\* binding): same result and same change of state, for get, get_cf,
\* get_for_update, get_for_update_cf and transaction. Each form is compared
\* on the steps that report its call, by the transaction and on the cell
\* they report; no other step is a call of either form.
C25_DefaultFormsDelegate ==
    [][\A t \in Txns :
          last'.t = t
          => LET cf == last'.c[1]
                 key == last'.c[2]
             IN  /\ last'.op = "get"
                    => /\ Transaction_get(t, key)
                          <=> Transaction_get_opt(t, key, [snapshot |-> None])
                       /\ Transaction_get_cf(t, cf, key)
                          <=> Transaction_get_cf_opt(t, cf, key, [snapshot |-> None])
                 /\ last'.op = "get_for_update"
                    => /\ get_for_update(t, key)
                          <=> get_for_update_opt(t, key, [snapshot |-> None], TRUE)
                       /\ get_for_update_cf(t, cf, key)
                          <=> get_for_update_cf_opt(t, cf, key, [snapshot |-> None], TRUE)
                 /\ last'.op = "transaction"
                    => (transaction(t)
                        <=> transaction_opt(t, [sync |-> FALSE], [set_snapshot |-> FALSE])) ]_vars

\* Transaction 1, begun without snapshot binding, is the only one open and
\* its get_for_update returned the stored value and left it the exclusive
\* lock.
C25_Witness ==
    /\ Active(1) /\ ~IsSome(snap[1]) /\ txState[2] = "none"
    /\ locks[<<DefaultCF, "k1">>] = [holders |-> {1}, exclusive |-> TRUE]
    /\ last = Call("get_for_update", 1, <<DefaultCF, "k1">>, Ok(Some(<<"a">>)))

\* C27: a get_for_update, by a live transaction, of a cell that is absent
\* for it returns Ok(None) and leaves it a holder of the cell's lock, or is
\* refused with a Conflict error because of another holder: absence is no
\* error. While a transaction holds the exclusive lock on a cell, every
\* get_for_update of the cell by another live transaction and every direct
\* put of it returns a Conflict error; and a transaction stops holding a
\* lock only by a commit, rollback, rollback_to_savepoint or drop of its
\* own.
C27_AbsentKeyIsLocked ==
    [][\A t \in Txns, c \in Cells :
          /\ ( /\ Called({"get_for_update"}) /\ last'.t = t /\ last'.c = c
               /\ Active(t) /\ TxnView(t, c) = Ok(None) )
             => /\ last'.res \in {Ok(None), Err("Conflict")}
                /\ last'.res = Ok(None) => t \in locks'[c].holders
                /\ last'.res = Err("Conflict")
                   => locks[c].holders \ {t} # {} /\ locks' = locks
          /\ (HoldsExclusive(t, c) /\ left > 0)
             => /\ \A u \in Txns \ {t}, exclusive \in BOOLEAN :
                      Active(u)
                      => ~ENABLED ( /\ get_for_update_cf_opt(u, c[1], c[2],
                                                             DefaultReadOptions, exclusive)
                                    /\ last'.res # Err("Conflict") )
                /\ ~ENABLED ( /\ TransactionDB_put_cf(c[1], c[2], <<"b">>)
                              /\ last'.res # Err("Conflict") )
          /\ (t \in locks[c].holders /\ t \notin locks'[c].holders)
             => /\ Called({"commit", "rollback", "rollback_to_savepoint", "drop"})
                /\ last'.t = t ]_vars

\* The cell is absent; transaction 1, with no write, holds its exclusive
\* lock, and the get_for_update of transaction 2 was refused.
C27_Witness ==
    /\ Active(1) /\ Active(2) /\ wb[1] = <<>>
    /\ db[<<DefaultCF, "k1">>] = None
    /\ locks[<<DefaultCF, "k1">>] = [holders |-> {1}, exclusive |-> TRUE]
    /\ last = Call("get_for_update", 2, <<DefaultCF, "k1">>, Err("Conflict"))

\* The bare get_for_update on the default column family, get_for_update_cf
\* on another.
LockCell(u, d) ==
    IF d[1] = DefaultCF THEN get_for_update(u, d[2]) ELSE get_for_update_cf(u, d[1], d[2])

\* C28: locks are per column family and key. While a transaction holds the
\* exclusive lock on a key in one column family and nobody holds a lock on
\* the same key in another, a get_for_update of the key in the other column
\* family by another live transaction succeeds and takes that lock, and a
\* direct put of it succeeds and stores the value; no put of the key in the
\* locked column family, direct or through another transaction, succeeds.
C28_LocksPerColumnFamily ==
    \A a \in Txns, c \in Cells, d \in Cells :
       ( /\ c[1] # d[1] /\ c[2] = d[2] /\ left > 0
         /\ HoldsExclusive(a, c) /\ locks[d].holders = {} )
       => /\ \A u \in Txns \ {a} :
                /\ Active(u)
                   => ENABLED ( /\ LockCell(u, d)
                                /\ IsOk(last'.res)
                                /\ locks'[d] = [holders |-> {u}, exclusive |-> TRUE]
                                /\ locks'[c] = locks[c] )
                /\ ~ENABLED (Transaction_put_cf(u, c[1], c[2], <<"b">>) /\ IsOk(last'.res))
          /\ ENABLED ( /\ TransactionDB_put_cf(d[1], d[2], <<"b">>)
                       /\ IsOk(last'.res) /\ db'[d] = Some(<<"b">>) )
          /\ ~ENABLED (TransactionDB_put_cf(c[1], c[2], <<"b">>) /\ IsOk(last'.res))

\* Transaction 1 holds the exclusive lock on k1 in cf1; the get_for_update
\* of k1 in the default column family by transaction 2 succeeded and gave
\* it that lock.
C28_Witness ==
    /\ Active(1) /\ Active(2) /\ wb[1] = <<>> /\ wb[2] = <<>>
    /\ locks[<<"cf1", "k1">>] = [holders |-> {1}, exclusive |-> TRUE]
    /\ locks[<<DefaultCF, "k1">>] = [holders |-> {2}, exclusive |-> TRUE]
    /\ last = Call("get_for_update", 2, <<DefaultCF, "k1">>, Ok(Some(<<"a">>)))

\* C26: every snapshot view is released exactly once: a view the caller
\* holds has not been released, a view that was dropped has been released
\* once, and no view is released more often. A view taken from a transaction
\* is dropped, and so released, before the transaction's handle is.
C26_ReleasedOnce ==
    \A v \in ViewIds :
       /\ views[v].freed <= 1
       /\ views[v].held = "unused" => views[v] = NoView
       /\ views[v].held = "live"
          => /\ views[v].freed = 0
             /\ views[v].owner \in Txns => txState[views[v].owner] # "none"
       /\ views[v].held = "dropped" => views[v].freed = 1
       /\ views[v].held \in {"unused", "live", "dropped"}

\* A view of the database and a view of transaction 1, still open, were
\* taken and both dropped, each released once.
C26_Witness ==
    /\ txState[1] # "none" /\ last.op = "snapshot_drop"
    /\ \A v \in ViewIds : views[v].held = "dropped" /\ views[v].freed = 1
    /\ \E v \in ViewIds : views[v].owner = 1
    /\ \E v \in ViewIds : views[v].owner = NoTxn

====
